---- MODULE Spec2Model ----
(***************************************************************************)
(* Model of rust-1brc (src/src/main.rs): main runs the line-buffered scan  *)
(* read_stations_data over the file and then parallel_memory_mapped, which *)
(* memory-maps the file, cuts it into chunks with slice, scans every chunk *)
(* with read_stations_data_slice on a rayon worker and reduces the partial *)
(* mappings with the merge closure.                                        *)
(*                                                                         *)
(* Bytes are their ASCII codes.  An f64 is modelled as a floating-point    *)
(* number with a mantissa of MantBits bits (round to nearest, ties to      *)
(* even) over the integers, so that additions round as f64 additions do.   *)
(* Ranges of the file are pairs <<start, end>> with end exclusive, as in   *)
(* &data[start..end]; data[i] of the source is data[i + 1] here.           *)
(***************************************************************************)
EXTENDS Integers, Sequences, FiniteSets, Bags, TLC

\* ---------------------------------------------------------------- bounds
MaxRecords == 3
MaxSliceSize == 4
MantBits == 2

\* ----------------------------------------------------------------- bytes
NL == 10
SEMI == 59
MINUS == 45
DIGIT0 == 48
DIGIT9 == 57

\* The lines the input files are built from: an empty line, lines without
\* a delimiter, well-formed records, a record with a non-numeric value and
\* a record with two delimiters.   97 = 'a', 98 = 'b', 49 = '1', 50 = '2'.
Lines ==
    { <<>>,
      <<49>>,
      <<97>>,
      <<97, SEMI, 49>>,
      <<97, SEMI, 50>>,
      <<98, SEMI, MINUS, 49>>,
      <<97, SEMI, 98>>,
      <<97, SEMI, 49, SEMI, 50>> }

RECURSIVE JoinLines(_)
JoinLines(ls) ==
    IF Len(ls) = 0 THEN <<>>
    ELSE IF Len(ls) = 1 THEN ls[1]
    ELSE ls[1] \o <<NL>> \o JoinLines(Tail(ls))

LineSeqs == UNION { [1..n -> Lines] : n \in 1..MaxRecords }

\* Every file of at most MaxRecords lines, with and without a terminator
\* after the last line, and the empty file.
Files ==
    {<<>>} \cup { JoinLines(ls) : ls \in LineSeqs }
           \cup { JoinLines(ls) \o <<NL>> : ls \in LineSeqs }

\* An intermediate result that an operator uses more than once is bound by
\* a set constructor, CHOOSE x \in { e(r) : r \in {v} } : TRUE, which is
\* e(v) with v evaluated once: TLC evaluates a LET definition or an
\* argument again at every use while it evaluates ENABLED.

\* ------------------------------------------------------------------- f64
Abs(x) == IF x < 0 THEN -x ELSE x

RECURSIVE Pow2(_)
Pow2(n) == IF n = 0 THEN 1 ELSE 2 * Pow2(n - 1)

\* The quantum of the binade of m >= 1: 2^(e - MantBits + 1) for
\* 2^e <= m < 2^(e+1), and 1 below 2^MantBits.
RECURSIVE Quantum(_, _)
Quantum(m, q) == IF m < q * Pow2(MantBits) THEN q ELSE Quantum(m, 2 * q)

\* Rounding of an exact value to the nearest f64, ties to even.
RoundF64(x) ==
    CHOOSE y \in
        { IF v = 0 THEN 0
          ELSE LET m == Abs(v)
                   r == m % q
                   lo == m - r
                   up == IF 2 * r < q THEN lo
                         ELSE IF 2 * r > q THEN lo + q
                         ELSE IF (lo \div q) % 2 = 0 THEN lo ELSE lo + q
               IN  IF v < 0 THEN -up ELSE up :
          v \in {x}, q \in {Quantum(Abs(x), 1)} } : TRUE

\* e.sum_temp += temp
AddF64(a, b) == RoundF64(a + b)

MaxF64(a, b) == IF a > b THEN a ELSE b
MinF64(a, b) == IF a < b THEN a ELSE b

IsDigit(b) == b >= DIGIT0 /\ b <= DIGIT9

RECURSIVE DecimalValue(_)
DecimalValue(s) ==
    IF Len(s) = 0 THEN 0
    ELSE 10 * DecimalValue(SubSeq(s, 1, Len(s) - 1)) + (s[Len(s)] - DIGIT0)

\* str::parse::<f64> on the bytes of the model's alphabet: an optional sign
\* and at least one digit.  [ok |-> FALSE] is the Err the code unwraps.
ParseF64(s) ==
    LET neg == Len(s) > 0 /\ s[1] = MINUS
        ds == IF neg THEN Tail(s) ELSE s
    IN  IF Len(ds) > 0 /\ \A i \in 1..Len(ds) : IsDigit(ds[i])
        THEN [ok |-> TRUE,
              v |-> RoundF64(IF neg THEN -DecimalValue(ds) ELSE DecimalValue(ds))]
        ELSE [ok |-> FALSE, v |-> 0]

\* -------------------------------------------------------------- mappings
\* A HashMap<key, StationData> is a function from its key set.  What a scan
\* returns is Ok(m), or Panic when an expect or a slice index panics.
EmptyMap == <<>>
Ok(m) == [ok |-> TRUE, m |-> m]
Panic == [ok |-> FALSE, m |-> EmptyMap]

StationData(min_temp, max_temp, sum_temp, n) ==
    [min_temp |-> min_temp, max_temp |-> max_temp, sum_temp |-> sum_temp, n |-> n]

Put(m, k, e) == [x \in DOMAIN m \cup {k} |-> IF x = k THEN e ELSE m[x]]

\* --------------------------------------------------------- process_record
\* A fold that does not count the value of a key it already holds.
FoldRecord_CountKept(m, station, temp) ==
    IF station \in DOMAIN m
    THEN LET e == m[station]
         IN  Put(m, station,
                 StationData(IF temp < e.min_temp THEN temp ELSE e.min_temp,
                             IF temp > e.max_temp THEN temp ELSE e.max_temp,
                             AddF64(e.sum_temp, temp),
                             e.n))
    ELSE Put(m, station, StationData(temp, temp, temp, 1))

\* A fold that keeps the first value of a key as its maximum.
FoldRecord_MaxKept(m, station, temp) ==
    IF station \in DOMAIN m
    THEN LET e == m[station]
         IN  Put(m, station,
                 StationData(IF temp < e.min_temp THEN temp ELSE e.min_temp,
                             e.max_temp,
                             AddF64(e.sum_temp, temp),
                             e.n + 1))
    ELSE Put(m, station, StationData(temp, temp, temp, 1))

\* The and_modify / or_insert of process_record (lines 148-163).
FoldRecord(m, station, temp) ==
    IF station \in DOMAIN m
    THEN LET e == m[station]
         IN  Put(m, station,
                 StationData(IF temp < e.min_temp THEN temp ELSE e.min_temp,
                             IF temp > e.max_temp THEN temp ELSE e.max_temp,
                             AddF64(e.sum_temp, temp),
                             e.n + 1))
    ELSE Put(m, station, StationData(temp, temp, temp, 1))

\* &data[from..to] panics when from > to or to > data.len().
RangeOk(data, from, to) == from <= to /\ to <= Len(data)

\* The parse of the value span, temp.parse().expect(temp) (line 147).
ParseTemp(data, temp_start, temp_end) ==
    ParseF64(SubSeq(data, temp_start + 1, temp_end))

process_record(data, m, station_start, station_end, temp_start, temp_end) ==
    IF ~RangeOk(data, station_start, station_end) THEN Panic
    ELSE IF ~RangeOk(data, temp_start, temp_end) THEN Panic
    ELSE CHOOSE x \in
             { IF ~temp.ok THEN Panic ELSE Ok(FoldRecord(m, station, temp.v)) :
               station \in {SubSeq(data, station_start + 1, station_end)},
               temp \in {ParseTemp(data, temp_start, temp_end)} } : TRUE

\* ------------------------------------------------ read_stations_data_slice
\* What the scan does with the delimiter offsets at a ';' (lines 130-133).
AtDelimiter(i, station_end, temp_start) ==
    [station_end |-> i, temp_start |-> i + 1]

\* The locals of the scan before its first iteration (lines 119-125).
ScanStart ==
    [ok |-> TRUE, m |-> EmptyMap, station_start |-> 0, station_end |-> 0,
     temp_start |-> 0]

\* The body of the while loop at index i (lines 127-134) on the locals s;
\* ok is FALSE after a panic of process_record.
ScanStep(data, i, s) ==
    IF data[i + 1] = NL
    THEN LET r == process_record(data, s.m, s.station_start, s.station_end,
                                 s.temp_start, i)
         IN  IF ~r.ok THEN [s EXCEPT !.ok = FALSE, !.m = EmptyMap]
             ELSE [s EXCEPT !.m = r.m, !.station_start = i + 1]
    ELSE IF data[i + 1] = SEMI
    THEN LET d == AtDelimiter(i, s.station_end, s.temp_start)
         IN  [s EXCEPT !.station_end = d.station_end,
                       !.temp_start = d.temp_start]
    ELSE s

\* The while loop of lines 126-135, from index i on with the locals s; the
\* set constructor binds the locals of the next iteration once.
RECURSIVE ScanFrom(_, _, _)
ScanFrom(data, i, s) ==
    IF i >= Len(data) \/ ~s.ok THEN s
    ELSE CHOOSE x \in { ScanFrom(data, j, t) :
                           j \in {i + 1}, t \in {ScanStep(data, i, s)} } : TRUE

\* A scan that leaves out the record after the last terminator.
LastRecord_Dropped(data, s) == Ok(s.m)

\* Lines 136-139: the record after the last terminator of the chunk.
LastRecord(data, s) ==
    IF data[Len(data)] # NL
    THEN process_record(data, s.m, s.station_start, s.station_end,
                        s.temp_start, Len(data))
    ELSE Ok(s.m)

\* data[len - 1] of an empty chunk is out of bounds: a panic.
read_stations_data_slice(data) ==
    CHOOSE x \in { IF ~s.ok THEN Panic
                   ELSE IF Len(data) = 0 THEN Panic
                   ELSE LastRecord(data, s) :
                   s \in {ScanFrom(data, 0, ScanStart)} } : TRUE

\* ------------------------------------------------------------------ merge
\* MergeEntry that forgets the minimum of the accumulator.
MergeEntry_KeepsOtherMin(m1, station, station_data) ==
    IF station \in DOMAIN m1
    THEN LET e == m1[station]
         IN  StationData(station_data.min_temp,
                         MaxF64(station_data.max_temp, e.max_temp),
                         AddF64(e.sum_temp, station_data.sum_temp),
                         e.n + station_data.n)
    ELSE station_data

\* MergeEntry that modifies a default entry where the accumulator has none.
MergeEntry_OrDefault(m1, station, station_data) ==
    LET e == IF station \in DOMAIN m1 THEN m1[station]
             ELSE StationData(0, 0, 0, 0)
    IN  StationData(MinF64(station_data.min_temp, e.min_temp),
                    MaxF64(station_data.max_temp, e.max_temp),
                    AddF64(e.sum_temp, station_data.sum_temp),
                    e.n + station_data.n)

\* The body of the loop of the reduce closure for one entry of m2
\* (lines 81-87).
MergeEntry(m1, station, station_data) ==
    IF station \in DOMAIN m1
    THEN LET e == m1[station]
         IN  StationData(MinF64(station_data.min_temp, e.min_temp),
                         MaxF64(station_data.max_temp, e.max_temp),
                         AddF64(e.sum_temp, station_data.sum_temp),
                         e.n + station_data.n)
    ELSE station_data

\* A merge that counts every entry of m2 as one observation.
merge_CountsOne(m1, m2) ==
    [k \in DOMAIN m1 \cup DOMAIN m2 |->
        IF k \in DOMAIN m2
        THEN (IF k \in DOMAIN m1
              THEN StationData(MinF64(m2[k].min_temp, m1[k].min_temp),
                               MaxF64(m2[k].max_temp, m1[k].max_temp),
                               AddF64(m1[k].sum_temp, m2[k].sum_temp),
                               m1[k].n + 1)
              ELSE m2[k])
        ELSE m1[k]]

\* The reduce closure |m1, m2| (lines 79-90); the keys of m2 are distinct,
\* so the iteration order of m2 does not matter.
merge(m1, m2) ==
    [k \in DOMAIN m1 \cup DOMAIN m2 |->
        IF k \in DOMAIN m2 THEN MergeEntry(m1, k, m2[k]) ELSE m1[k]]

\* ------------------------------------------------------------------ slice
\* The inner while loop of slice (lines 105-107).
RECURSIVE ScanToNewline(_, _)
ScanToNewline(data, slice_end) ==
    IF slice_end < Len(data) /\ data[slice_end + 1] # NL
    THEN ScanToNewline(data, slice_end + 1)
    ELSE slice_end

\* The indices at which the inner while loop of slice reads data: its
\* condition reads data[slice_end] when slice_end < len holds (line 105).
RECURSIVE ScanReads(_, _)
ScanReads(data, slice_end) ==
    IF slice_end < Len(data)
    THEN {slice_end} \cup (IF data[slice_end + 1] # NL
                           THEN ScanReads(data, slice_end + 1) ELSE {})
    ELSE {}

\* A slice_end that is not moved on to the next terminator.
SliceEnd_NoScan(data, slice_start, slice_size) == slice_start + slice_size

\* A slice_end searched from the start of the chunk.
SliceEnd_FromStart(data, slice_start, slice_size) ==
    ScanToNewline(data, slice_start)

\* A slice_end from which the next chunk starts where this one started.
SliceEnd_Stuck(data, slice_start, slice_size) == slice_start - 1

\* slice_end of the chunk that starts at slice_start (lines 104-107).
SliceEnd(data, slice_start, slice_size) ==
    ScanToNewline(data, slice_start + slice_size)

\* A range that takes the terminator at slice_end into the chunk.
SliceRange_WithTerminator(data, slice_start, slice_end) ==
    IF slice_end < Len(data) THEN <<slice_start, slice_end + 1>>
    ELSE <<slice_start, Len(data)>>

\* A range that is not cut at the end of the file.
SliceRange_Unclamped(data, slice_start, slice_end) == <<slice_start, slice_end>>

\* The range pushed for the chunk (lines 108-112).
SliceRange(data, slice_start, slice_end) ==
    IF slice_end < Len(data) THEN <<slice_start, slice_end>>
    ELSE <<slice_start, Len(data)>>

\* &data[range]
Bytes(data, range) == SubSeq(data, range[1] + 1, range[2])

\* ------------------------------------------------------ read_stations_data
\* BufRead::lines: the lines of the file without their terminators; a
\* terminator after the last line starts no further line.  (The files of
\* the model hold no '\r', which lines would strip before a terminator.)
RECURSIVE SplitLines(_, _, _)
SplitLines(data, i, cur) ==
    IF i > Len(data) THEN (IF Len(cur) = 0 THEN <<>> ELSE <<cur>>)
    ELSE IF data[i] = NL THEN <<cur>> \o SplitLines(data, i + 1, <<>>)
    ELSE SplitLines(data, i + 1, Append(cur, data[i]))

FileLines(data) == SplitLines(data, 1, <<>>)

Delimiters(l) == { i \in 1..Len(l) : l[i] = SEMI }

\* The fold of one line by read_stations_data (lines 47-63): a line that
\* does not split into two parts is left out, an invalid temperature
\* panics.
LinearFold(m, l) ==
    IF Cardinality(Delimiters(l)) # 1 THEN Ok(m)
    ELSE LET d == CHOOSE i \in Delimiters(l) : TRUE
         IN  CHOOSE x \in
                 { IF ~temp.ok THEN Panic
                   ELSE IF station \in DOMAIN m
                   THEN LET e == m[station]
                        IN  Ok(Put(m, station,
                                   StationData(MinF64(temp.v, e.min_temp),
                                               MaxF64(temp.v, e.max_temp),
                                               AddF64(e.sum_temp, temp.v),
                                               e.n + 1)))
                   ELSE Ok(Put(m, station,
                               StationData(temp.v, temp.v, temp.v, 1))) :
                   station \in {SubSeq(l, 1, d - 1)},
                   temp \in {ParseF64(SubSeq(l, d + 1, Len(l)))} } : TRUE

\* The for loop over reader.lines() (line 45).
RECURSIVE LinearScan(_, _)
LinearScan(ls, r) ==
    IF Len(ls) = 0 \/ ~r.ok THEN r
    ELSE CHOOSE x \in { LinearScan(Tail(ls), next) :
                           next \in {LinearFold(r.m, Head(ls))} } : TRUE

read_stations_data(data) ==
    CHOOSE x \in { LinearScan(ls, Ok(EmptyMap)) : ls \in {FileLines(data)} } : TRUE

\* ------------------------------------------------------------------ state
VARIABLES
    data,         \* the bytes of the input file
    slice_size,   \* SLICE_SIZE of this build
    pc,           \* where main is: "simple", "mmap", "slice", "reduce",
                  \*   "done" (main returned Ok) or "failed"
    linear,       \* what read_stations_data returned to simple_file_read
    slice_start,  \* slice: the start of the next chunk
    slices,       \* slice: the ranges pushed so far
    parts,        \* the items of the parallel iterator: a chunk still to be
                  \*   scanned, or a partial mapping waiting for its merge
    leaf_count,   \* how many workers have started from an identity mapping
    leaves,       \* the partial mapping of every chunk scanned so far, in
                  \*   the order of the chunks (EmptyMap until scanned)
    failure,      \* "none", "panic" or "io_error"
    final,        \* the mapping m that parallel_memory_mapped prints
    running,      \* what each worker of the pool is doing and which items of
                  \*   parts it has in its hands
    scans,        \* the bag of the chunks the workers have scanned
    made,         \* the partial mappings made so far
    used          \* the bag of the partial mappings consumed by a merge

vars == <<data, slice_size, pc, linear, slice_start, slices, parts, leaf_count,
          leaves, failure, final, running, scans, made, used>>

\* The workers of the pool.
Workers == {"w1", "w2"}

\* The state of the workers: all of it is left alone by a step of the run
\* that is not told apart by worker.
pool == <<running, scans, made, used>>

NoRange == <<>>
Idle == [kind |-> "idle", acc |-> NoRange, item |-> NoRange]

ChunkItem(range) ==
    [chunk |-> TRUE, range |-> range, m |-> EmptyMap, plain |-> EmptyMap]
MapItem(m) == [chunk |-> FALSE, range |-> <<0, 0>>, m |-> m, plain |-> m]

\* The accumulator of a worker: its mapping m, the range of the file from
\* the start of the first to the end of the last chunk folded into it, and
\* plain, the mapping the same folds and joins give when no worker starts
\* from an identity.
AccItem(m, range, plain) ==
    [chunk |-> FALSE, range |-> range, m |-> m, plain |-> plain]

Init ==
    /\ data \in Files
    /\ slice_size \in 1..MaxSliceSize
    /\ pc = "simple"
    /\ linear = Ok(EmptyMap)
    /\ slice_start = 0
    /\ slices = <<>>
    /\ parts = <<>>
    /\ leaf_count = 0
    /\ leaves = <<>>
    /\ failure = "none"
    /\ final = EmptyMap
    /\ running = [w \in Workers |-> Idle]
    /\ scans = EmptyBag
    /\ made = {}
    /\ used = EmptyBag

\* simple_file_read (lines 31-41): the expect of read_stations_data panics
\* out of main.
SimpleFileRead ==
    /\ pc = "simple"
    /\ \E r \in {read_stations_data(data)} :
           /\ linear' = r
           /\ pc' = IF r.ok THEN "mmap" ELSE "failed"
           /\ failure' = IF r.ok THEN "none" ELSE "panic"
    /\ UNCHANGED <<data, slice_size, slice_start, slices, parts, leaf_count, leaves,
                   final>>
    /\ UNCHANGED pool

\* Mmap::map(&file)? (line 73): mmap rejects a mapping of length 0 and the
\* error is returned from parallel_memory_mapped and from main.
MmapOk(len) == len > 0

MapFile ==
    /\ pc = "mmap"
    /\ pc' = IF MmapOk(Len(data)) THEN "slice" ELSE "failed"
    /\ failure' = IF MmapOk(Len(data)) THEN "none" ELSE "io_error"
    /\ UNCHANGED <<data, slice_size, linear, slice_start, slices, parts, leaf_count,
                   leaves, final>>
    /\ UNCHANGED pool

\* One iteration of the outer loop of slice (lines 103-114).
SliceStep ==
    /\ pc = "slice"
    /\ slice_start < Len(data)
    /\ LET slice_end == SliceEnd(data, slice_start, slice_size)
       IN  /\ slices' = Append(slices, SliceRange(data, slice_start, slice_end))
           /\ slice_start' = slice_end + 1
    /\ UNCHANGED <<data, slice_size, pc, linear, parts, leaf_count, leaves, failure,
                   final>>
    /\ UNCHANGED pool

\* slice returns; slices.par_iter() (lines 115, 75-76).
SliceReturn ==
    /\ pc = "slice"
    /\ slice_start >= Len(data)
    /\ parts' = [i \in 1..Len(slices) |-> ChunkItem(slices[i])]
    /\ leaves' = [i \in 1..Len(slices) |-> EmptyMap]
    /\ pc' = "reduce"
    /\ UNCHANGED <<data, slice_size, linear, slice_start, slices, leaf_count, failure,
                   final>>
    /\ UNCHANGED pool

\* The position in slices of the chunk with this range.
ChunkIndex(range) == CHOOSE c \in 1..Len(slices) : slices[c] = range

\* What the reduction does with one item of the iterator: the map closure
\* |slice| read_stations_data_slice(*slice) (line 77) and then the reduce
\* closure with the accumulator acc of the worker as m1 (lines 79-90).
FoldItem(acc, chunk) ==
    CHOOSE x \in { IF r.ok THEN Ok(merge(acc, r.m)) ELSE Panic :
                   r \in {read_stations_data_slice(chunk)} } : TRUE

\* A worker starts on the sub-range of the items that begins at item i: its
\* accumulator is the identity || HashMap::new() (line 78), into which it
\* folds the item.  A panic of the worker is raised again in the caller of
\* reduce.
StartLeafStep(i) ==
    /\ pc = "reduce"
    /\ i \in 1..Len(parts)
    /\ parts[i].chunk
    /\ \E r \in {FoldItem(EmptyMap, Bytes(data, parts[i].range))},
          scan \in {read_stations_data_slice(Bytes(data, parts[i].range))} :
           IF r.ok
           THEN /\ parts' = [parts EXCEPT ![i] =
                                 AccItem(r.m, parts[i].range, scan.m)]
                /\ leaves' = [leaves EXCEPT ![ChunkIndex(parts[i].range)] = scan.m]
                /\ leaf_count' = leaf_count + 1
                /\ UNCHANGED <<pc, failure>>
           ELSE /\ pc' = "failed"
                /\ failure' = "panic"
                /\ UNCHANGED <<parts, leaves, leaf_count>>
    /\ UNCHANGED <<data, slice_size, linear, slice_start, slices, final>>

StartLeaf(i) == StartLeafStep(i) /\ UNCHANGED pool

\* The worker whose accumulator is item i folds the next item of its
\* sub-range into it.
FoldNextStep(i) ==
    /\ pc = "reduce"
    /\ i \in 1..(Len(parts) - 1)
    /\ ~parts[i].chunk
    /\ parts[i + 1].chunk
    /\ \E r \in {FoldItem(parts[i].m, Bytes(data, parts[i + 1].range))},
          scan \in {read_stations_data_slice(Bytes(data, parts[i + 1].range))} :
           IF r.ok
           THEN /\ parts' = SubSeq(parts, 1, i - 1)
                                \o <<AccItem(r.m,
                                       <<parts[i].range[1], parts[i + 1].range[2]>>,
                                       merge(parts[i].plain, scan.m))>>
                                \o SubSeq(parts, i + 2, Len(parts))
                /\ leaves' = [leaves EXCEPT ![ChunkIndex(parts[i + 1].range)] = scan.m]
                /\ UNCHANGED <<pc, failure>>
           ELSE /\ pc' = "failed"
                /\ failure' = "panic"
                /\ UNCHANGED <<parts, leaves>>
    /\ UNCHANGED <<data, slice_size, linear, slice_start, slices, leaf_count,
                   final>>

FoldNext(i) == FoldNextStep(i) /\ UNCHANGED pool

\* The results of two neighbouring sub-ranges are joined with the reduce
\* closure |m1, m2| (lines 79-90).
JoinStep(i) ==
    /\ pc = "reduce"
    /\ i \in 1..(Len(parts) - 1)
    /\ ~parts[i].chunk
    /\ ~parts[i + 1].chunk
    /\ parts' = SubSeq(parts, 1, i - 1)
                    \o <<AccItem(merge(parts[i].m, parts[i + 1].m),
                                  <<parts[i].range[1], parts[i + 1].range[2]>>,
                                  merge(parts[i].plain, parts[i + 1].plain))>>
                    \o SubSeq(parts, i + 2, Len(parts))
    /\ UNCHANGED <<data, slice_size, pc, linear, slice_start, slices, leaf_count,
                   leaves, failure, final>>

Join(i) == JoinStep(i) /\ UNCHANGED pool

\* reduce returns its single remaining mapping as m (lines 75, 91-96); over
\* no item at all it returns the identity.
FinishStep ==
    /\ pc = "reduce"
    /\ Len(parts) <= 1
    /\ Len(parts) = 1 => ~parts[1].chunk
    /\ final' = IF Len(parts) = 1 THEN parts[1].m ELSE EmptyMap
    /\ pc' = "done"
    /\ UNCHANGED <<data, slice_size, linear, slice_start, slices, parts, leaf_count,
                   leaves, failure>>

Finish == FinishStep /\ UNCHANGED pool

Next ==
    \/ MapFile
    \/ SliceStep
    \/ SliceReturn
    \/ Finish
    \/ \E i \in 1..(MaxRecords + 1) : Join(i)
    \/ \E i \in 1..(MaxRecords + 1) : FoldNext(i)
    \/ \E i \in 1..(MaxRecords + 1) : StartLeaf(i)
    \/ SimpleFileRead

Spec == Init /\ [][Next]_vars

\* The same runs, named apart for the properties of single steps.
SpecSteps == Init /\ [][Next]_vars

\* ------------------------------------------------- the reduction on its own
\* The statistics the partial mappings of SpecMerge are drawn from; the
\* sums include 2^MantBits, the least f64 whose successor is 2 away.
StatsSamples ==
    { StationData(1, 1, 1, 1),
      StationData(1, 2, 3, 2),
      StationData(-1, -1, -1, 1),
      StationData(Pow2(MantBits), Pow2(MantBits), Pow2(MantBits), 1) }

SampleKeys == { <<97>>, <<98>> }

PartialMaps == UNION { [ks -> StatsSamples] : ks \in SUBSET SampleKeys }

\* The joins of reduce over the results of three workers, in the order of
\* their sub-ranges.
InitMerge ==
    /\ data = <<>>
    /\ slice_size = 1
    /\ pc = "reduce"
    /\ linear = Ok(EmptyMap)
    /\ slice_start = 0
    /\ slices = <<>>
    /\ leaves \in [1..3 -> PartialMaps]
    /\ parts = [i \in 1..3 |-> MapItem(leaves[i])]
    /\ leaf_count = 3
    /\ failure = "none"
    /\ final = EmptyMap
    /\ running = [w \in Workers |-> Idle]
    /\ scans = EmptyBag
    /\ made = {}
    /\ used = EmptyBag

NextMerge ==
    \/ \E i \in 1..2 : Join(i)
    \/ Finish

SpecMerge == InitMerge /\ [][NextMerge]_vars

\* ---------------------------------------------------- notions of the claims
\* The part of a line before / after its first delimiter.
FirstDelimiter(l) == CHOOSE i \in Delimiters(l) : \A j \in Delimiters(l) : i <= j
KeyPart(l) == SubSeq(l, 1, FirstDelimiter(l) - 1)
ValuePart(l) == SubSeq(l, FirstDelimiter(l) + 1, Len(l))

LinesOf(d) == { FileLines(d)[i] : i \in 1..Len(FileLines(d)) }

\* A record key;value with one delimiter and a decimal value.
WellFormedLine(l) == Cardinality(Delimiters(l)) = 1 /\ ParseF64(ValuePart(l)).ok
WellFormed(d) == Len(d) > 0 /\ \A l \in LinesOf(d) : WellFormedLine(l)

SameKeysMinMaxCount(m1, m2) ==
    /\ DOMAIN m1 = DOMAIN m2
    /\ \A k \in DOMAIN m1 :
          /\ m1[k].min_temp = m2[k].min_temp
          /\ m1[k].max_temp = m2[k].max_temp
          /\ m1[k].n = m2[k].n

SameSums(m1, m2) ==
    /\ DOMAIN m1 = DOMAIN m2
    /\ \A k \in DOMAIN m1 : m1[k].sum_temp = m2[k].sum_temp

\* The aggregate of a file taken record by record: every non-empty line is
\* scanned as a chunk of its own and the mappings are merged from left to
\* right.  It depends on the bytes of the file alone.
RECURSIVE MergeLines(_, _)
MergeLines(ls, m) ==
    IF Len(ls) = 0 THEN m
    ELSE IF Len(Head(ls)) = 0 THEN MergeLines(Tail(ls), m)
    ELSE MergeLines(Tail(ls), merge(m, read_stations_data_slice(Head(ls)).m))

PerRecord(d) == MergeLines(FileLines(d), EmptyMap)

\* The total of the magnitudes of the values folded under key k.
RECURSIVE Magnitude(_, _)
Magnitude(ls, k) ==
    IF Len(ls) = 0 THEN 0
    ELSE LET m == IF Len(Head(ls)) = 0 THEN EmptyMap
                  ELSE read_stations_data_slice(Head(ls)).m
         IN  (IF k \in DOMAIN m THEN Abs(m[k].sum_temp) ELSE 0)
                 + Magnitude(Tail(ls), k)

\* No addition of the values of a key can round, in whatever order the
\* values are added.
ExactSums(d) ==
    \A k \in DOMAIN PerRecord(d) : Magnitude(FileLines(d), k) < Pow2(MantBits)

SliceReturned == pc \in {"reduce", "done"}
RunEnded == pc \in {"done", "failed"}

\* ------------------------------------------------------------------ claims
\* C1: for any input file the parallel path (slice, the chunk scans, the
\* reduce merge) produces the same key set and per key the same min, max,
\* count and sum as the linear scan read_stations_data of the whole file.
C1_ParallelEqualsLinear ==
    (RunEnded /\ linear.ok) => (pc = "done" /\ final = linear.m)

\* C2: for a fixed file, the key set and every key's (min, max, count) of
\* the final mapping are those of the record-by-record aggregate of the
\* file, whatever the chunk size and the order and grouping of the merges;
\* the sums are too when no addition rounds.
C2_IndependentOfChunking ==
    pc = "done" =>
        /\ SameKeysMinMaxCount(final, PerRecord(data))
        /\ ExactSums(data) => SameSums(final, PerRecord(data))

C2_Witness ==
    /\ pc = "done"
    /\ WellFormed(data)
    /\ slice_size = 1
    /\ Len(slices) = 3
    /\ leaf_count = 2
    /\ \E k \in DOMAIN final : final[k].n = 3 /\ final[k].min_temp < final[k].max_temp

\* C3 as stated: the ranges are ordered, do not overlap and cover [0, L)
\* exactly once, and every range ends at a terminator byte or at L.
C3_CoversExactlyOnce ==
    SliceReturned =>
        /\ \A i \in 0..(Len(data) - 1) :
              Cardinality({ c \in 1..Len(slices) :
                              slices[c][1] <= i /\ i < slices[c][2] }) = 1
        /\ \A c \in 1..Len(slices) :
              /\ slices[c][1] < slices[c][2]
              /\ slices[c][2] = Len(data) \/ data[slices[c][2]] = NL

\* C3 amended: the ranges are ordered, non-empty and disjoint; the first
\* starts at 0, each next one starts one byte after the end of the one
\* before, every range ends right before a terminator byte or at L, and
\* the bytes of [0, L) in no range are exactly those terminators.
C3_CoversAllButSeparators ==
    SliceReturned =>
        /\ \A c \in 1..Len(slices) :
              /\ slices[c][1] < slices[c][2]
              /\ slices[c][2] <= Len(data)
              /\ slices[c][2] = Len(data) \/ data[slices[c][2] + 1] = NL
              /\ c = 1 => slices[c][1] = 0
              /\ c > 1 => slices[c][1] = slices[c - 1][2] + 1
        /\ \A i \in 0..(Len(data) - 1) :
              LET hits == { c \in 1..Len(slices) :
                              slices[c][1] <= i /\ i < slices[c][2] }
              IN  IF \E c \in 1..Len(slices) : slices[c][2] = i
                  THEN hits = {}
                  ELSE Cardinality(hits) = 1

C3_Witness ==
    /\ SliceReturned
    /\ WellFormed(data)
    /\ Len(slices) = 3
    /\ slices[3][2] < Len(data)

InChunk(c, i) == slices[c][1] <= i /\ i < slices[c][2]

\* C4: every chunk starts at offset 0 or right after a newline and ends at
\* a newline or at the end of the file, so any two neighbouring bytes of
\* one record lie in the same chunk.
C4_RecordAligned ==
    SliceReturned =>
        /\ \A c \in 1..Len(slices) :
              /\ slices[c][1] = 0 \/ data[slices[c][1]] = NL
              /\ slices[c][2] = Len(data) \/ data[slices[c][2] + 1] = NL
        /\ \A i \in 0..(Len(data) - 2) :
              (data[i + 1] # NL /\ data[i + 2] # NL) =>
                  \E c \in 1..Len(slices) : InChunk(c, i) /\ InChunk(c, i + 1)

C4_Witness ==
    /\ SliceReturned
    /\ WellFormed(data)
    /\ Len(slices) = 2
    /\ slice_size = 2
    /\ slices[1][2] - slices[1][1] > 3

\* C5: if a record has a value part (what follows its first delimiter) that
\* is no valid decimal number, the parallel run ends in a failure.
C5_BadValueFails ==
    (\E l \in LinesOf(data) : Delimiters(l) # {} /\ ~ParseF64(ValuePart(l)).ok)
        => pc # "done"

\* C6: if a record contains no delimiter, the parallel run ends in a
\* failure, wherever the record lies in its chunk and whatever its bytes.
C6_NoDelimiterFails ==
    (\E l \in LinesOf(data) : Len(l) > 0 /\ Delimiters(l) = {})
        => pc # "done"

\* The two groupings of the reduction of three partial mappings.
LeftFirst == merge(merge(leaves[1], leaves[2]), leaves[3])
RightFirst == merge(leaves[1], merge(leaves[2], leaves[3]))

\* The total of the magnitudes of the sums the leaves hold for key k.
RECURSIVE LeafMagnitude(_, _)
LeafMagnitude(i, k) ==
    IF i = 0 THEN 0
    ELSE (IF k \in DOMAIN leaves[i] THEN Abs(leaves[i][k].sum_temp) ELSE 0)
             + LeafMagnitude(i - 1, k)

SameSumsWhereExact(m1, m2) ==
    \A k \in DOMAIN m1 \cap DOMAIN m2 :
        LeafMagnitude(Len(leaves), k) < Pow2(MantBits)
            => m1[k].sum_temp = m2[k].sum_temp

\* C7 as stated: merge(merge(A,B),C) and merge(A,merge(B,C)) have the same
\* key set and per key the same min, max, sum and count; whichever of the
\* two the reduction computed, its result is both.
C7_MergeAssociative ==
    (pc = "done" /\ Len(leaves) = 3) =>
        /\ final = LeftFirst
        /\ final = RightFirst

\* C7 amended: the two groupings have the same key set and per key the
\* same min, max and count, and the same sum for every key whose additions
\* do not round.
C7_MergeAssociativeUpToRounding ==
    (pc = "done" /\ Len(leaves) = 3) =>
        /\ SameKeysMinMaxCount(final, LeftFirst)
        /\ SameKeysMinMaxCount(final, RightFirst)
        /\ SameSumsWhereExact(final, LeftFirst)
        /\ SameSumsWhereExact(final, RightFirst)

C7_Witness ==
    /\ pc = "done"
    /\ Len(leaves) = 3
    /\ \E k \in DOMAIN leaves[1] \cap DOMAIN leaves[2] \cap DOMAIN leaves[3] :
          /\ LeafMagnitude(3, k) < Pow2(MantBits)
          /\ final[k].n = 3
          /\ final[k].min_temp < final[k].max_temp

\* C8: for an empty file slice returns no chunk and the parallel run
\* completes normally with an empty final mapping.
C8_EmptyFileCompletes ==
    (Len(data) = 0 /\ RunEnded) => (pc = "done" /\ slices = <<>> /\ final = EmptyMap)

\* The number of lines of the file folded under key k.
Occurrences(d, k) ==
    Cardinality({ i \in 1..Len(FileLines(d)) : KeyPart(FileLines(d)[i]) = k })

\* C9: the last record of a file of well-formed records is folded exactly
\* once, with and without a terminator after it: the count of its key is
\* the number of records with that key, and a file of one record yields
\* one key with count 1 and min = max = the value.
C9_LastRecordOnce ==
    (pc = "done" /\ WellFormed(data)) =>
        LET ls == FileLines(data)
            last == ls[Len(ls)]
        IN  /\ KeyPart(last) \in DOMAIN final
            /\ final[KeyPart(last)].n = Occurrences(data, KeyPart(last))
            /\ Len(ls) = 1 =>
                  /\ DOMAIN final = {KeyPart(last)}
                  /\ final[KeyPart(last)].n = 1
                  /\ final[KeyPart(last)].min_temp = ParseF64(ValuePart(last)).v
                  /\ final[KeyPart(last)].max_temp = ParseF64(ValuePart(last)).v

C9_Witness ==
    /\ pc = "done"
    /\ WellFormed(data)
    /\ Len(FileLines(data)) = 1
    /\ data[Len(data)] # NL

\* C10: the key a record is folded under is the part of the record before
\* its first delimiter, also when the record has more than one delimiter.
C10_KeyBeforeFirstDelimiter ==
    (pc = "done" /\ \A l \in LinesOf(data) : Delimiters(l) # {}) =>
        DOMAIN final = { KeyPart(l) : l \in LinesOf(data) }

\* What the records of a range of the file hold when each is scanned
\* alone, in the order of the records; an empty line is no record.
RecordMaps(range) ==
    LET ls == FileLines(Bytes(data, range))
    IN  [i \in 1..Len(ls) |->
            IF Len(ls[i]) = 0 THEN EmptyMap
            ELSE read_stations_data_slice(ls[i]).m]

\* The values folded under key k by the records with the mappings ms: the
\* values observed for k, in the order of the records.
RECURSIVE ValuesOf(_, _)
ValuesOf(ms, k) ==
    IF Len(ms) = 0 THEN <<>>
    ELSE (IF k \in DOMAIN Head(ms) THEN <<Head(ms)[k].sum_temp>> ELSE <<>>)
             \o ValuesOf(Tail(ms), k)

RECURSIVE SeqSum(_)
SeqSum(vs) == IF Len(vs) = 0 THEN 0 ELSE Head(vs) + SeqSum(Tail(vs))

RECURSIVE SeqAbsSum(_)
SeqAbsSum(vs) == IF Len(vs) = 0 THEN 0 ELSE Abs(Head(vs)) + SeqAbsSum(Tail(vs))

\* The mappings of the run with the range of the file each one aggregates:
\* the per-chunk mappings, the accumulators of the workers and the final
\* mapping.
RunMappings ==
    { [m |-> leaves[c], range |-> slices[c]] : c \in 1..Len(leaves) }
        \cup { [m |-> parts[i].m, range |-> parts[i].range] :
                 i \in { j \in 1..Len(parts) : ~parts[j].chunk } }
        \cup { [m |-> final, range |-> <<0, Len(data)>>] }

\* The entries of the mapping m are the statistics of the values observed
\* in a range of the file: min <= max, count >= 1, the count is the number
\* of the values of the key, and the sum is their arithmetic sum, either
\* always (exact) or where no addition of the values rounds.
EntriesAreTotals(m, range, exact) ==
    \A ms \in {RecordMaps(range)} : \A k \in DOMAIN m :
        \A e \in {m[k]}, vs \in {ValuesOf(ms, k)} :
            /\ e.min_temp <= e.max_temp
            /\ e.n >= 1
            /\ e.n = Len(vs)
            /\ (exact \/ SeqAbsSum(vs) < Pow2(MantBits))
                  => e.sum_temp = SeqSum(vs)

\* Every mapping that a step makes or changes (a per-chunk mapping, an
\* accumulator, the final mapping) has the entries of its range.
StepKeepsEntries(exact) ==
    /\ \A c \in 1..Len(leaves') :
          (c > Len(leaves) \/ leaves'[c] # leaves[c])
              => EntriesAreTotals(leaves'[c], slices'[c], exact)
    /\ \A i \in 1..Len(parts') :
          (~parts'[i].chunk /\ \A j \in 1..Len(parts) : parts[j] # parts'[i])
              => EntriesAreTotals(parts'[i].m, parts'[i].range, exact)
    /\ final' # final => EntriesAreTotals(final', <<0, Len(data)>>, exact)

\* C11 as stated: every step (a fold of the records of a chunk, a merge)
\* leaves every entry of every per-chunk, accumulated or final mapping it
\* makes with min <= max and count >= 1, its count the number and its sum
\* the arithmetic sum of the values observed so far for its key.
C11_EntriesAreExactTotals == [][StepKeepsEntries(TRUE)]_vars

\* C11 amended: every step leaves every entry of every per-chunk,
\* accumulated or final mapping it makes with min <= max and count >= 1,
\* its count the number of the values observed so far for its key, and its
\* sum their arithmetic sum whenever no addition of these values rounds.
\* (No mapping has an entry before the first step.)
C11_EntriesAreTotalsUpToRounding == [][StepKeepsEntries(FALSE)]_vars

C11_Witness ==
    /\ pc = "reduce"
    /\ WellFormed(data)
    /\ Len(parts) = 2
    /\ ~parts[1].chunk
    /\ parts[2].chunk
    /\ parts[1].range[2] - parts[1].range[1] > 6
    /\ \E k \in DOMAIN parts[1].m :
          /\ parts[1].m[k].n = 2
          /\ parts[1].m[k].min_temp < parts[1].m[k].max_temp
          /\ parts[1].m[k].sum_temp = 3

\* Chunk c has been scanned by a worker.
Scanned(c) ==
    /\ SliceReturned
    /\ c \in 1..Len(slices)
    /\ ~\E i \in 1..Len(parts) : parts[i].chunk /\ parts[i].range = slices[c]

\* The values of the records of the lines ls whose key is k, in the order
\* of the records.
RECURSIVE ValuesOfKey(_, _)
ValuesOfKey(ls, k) ==
    IF Len(ls) = 0 THEN <<>>
    ELSE (IF KeyPart(Head(ls)) = k THEN <<ParseF64(ValuePart(Head(ls))).v>>
          ELSE <<>>) \o ValuesOfKey(Tail(ls), k)

\* sum = v for the first value, then sum += v for each later one.
RECURSIVE RunningSum(_, _)
RunningSum(vs, sum) ==
    IF Len(vs) = 0 THEN sum ELSE RunningSum(Tail(vs), AddF64(sum, Head(vs)))

Least(vs) == CHOOSE v \in { vs[i] : i \in 1..Len(vs) } :
                 \A i \in 1..Len(vs) : v <= vs[i]
Greatest(vs) == CHOOSE v \in { vs[i] : i \in 1..Len(vs) } :
                    \A i \in 1..Len(vs) : v >= vs[i]

\* C12: for a chunk of well-formed records the mapping of the chunk scan
\* has exactly the keys of the records of the chunk, and for each key the
\* count is the number of its records, min and max are the least and the
\* greatest of its values and sum is the total accumulated as sum = v for
\* the first and sum += v for every later value, in the order of the chunk.
C12_ChunkScanFoldsRecords ==
    \A c \in 1..Len(slices) :
        (Scanned(c) /\ WellFormed(Bytes(data, slices[c]))) =>
            LET chunk == Bytes(data, slices[c])
                ls == FileLines(chunk)
                m == leaves[c]
            IN  /\ read_stations_data_slice(chunk) = Ok(m)
                /\ DOMAIN m = { KeyPart(ls[i]) : i \in 1..Len(ls) }
                /\ \A k \in DOMAIN m :
                      LET vs == ValuesOfKey(ls, k)
                      IN  /\ m[k].n = Occurrences(chunk, k)
                          /\ m[k].n = Len(vs)
                          /\ m[k].min_temp = Least(vs)
                          /\ m[k].max_temp = Greatest(vs)
                          /\ m[k].sum_temp = RunningSum(Tail(vs), Head(vs))

C12_Witness ==
    \E c \in 1..Len(slices) :
        /\ Scanned(c)
        /\ WellFormed(Bytes(data, slices[c]))
        /\ Len(FileLines(Bytes(data, slices[c]))) = 2
        /\ \E k \in DOMAIN leaves[c] :
              /\ leaves[c][k].n = 2
              /\ leaves[c][k].min_temp = 1
              /\ leaves[c][k].max_temp = 2
              /\ leaves[c][k].sum_temp = 3

ChunkLen(c) == slices[c][2] - slices[c][1]

\* C14: every chunk other than the last has at least slice_size bytes and
\* no chunk holds a newline at or after its offset slice_size, so a chunk
\* ends at the first terminator at or after that offset; only the last
\* chunk may be shorter than slice_size.
C14_ChunkSizeBounds ==
    /\ \A c \in 1..(Len(slices) - 1) : ChunkLen(c) >= slice_size
    /\ \A c \in 1..Len(slices) :
          \A i \in (slices[c][1] + slice_size)..(slices[c][2] - 1) :
              data[i + 1] # NL

C14_Witness ==
    /\ SliceReturned
    /\ Len(slices) = 2
    /\ slice_size = 2
    /\ ChunkLen(1) > slice_size
    /\ ChunkLen(2) < slice_size

\* C16: every chunk that slice returns is a non-empty range of the file,
\* so the chunk scan gets len >= 1 and its index len - 1 is an index of the
\* chunk, and every index at which slice reads data is below the length of
\* the file.
C16_ChunksNonEmptyReadsInBounds ==
    \A c \in 1..Len(slices) :
        /\ 0 <= slices[c][1]
        /\ slices[c][1] < slices[c][2]
        /\ slices[c][2] <= Len(data)
        /\ ChunkLen(c) - 1 \in 0..(Len(Bytes(data, slices[c])) - 1)
        /\ \A i \in ScanReads(data, slices[c][1] + slice_size) :
              i \in 0..(Len(data) - 1)

C16_Witness ==
    /\ SliceReturned
    /\ \E c \in 1..Len(slices) : ChunkLen(c) = 1
    /\ \E c \in 1..Len(slices) :
          Len(data) - 1 \in ScanReads(data, slices[c][1] + slice_size)

\* C17: the empty mapping is a left and a right identity of the merge for
\* every per-chunk, accumulated and final mapping, and every accumulator
\* and the final mapping equal what the same folds and joins give without
\* any identity, however many identities the workers started from.
C17_EmptyIsIdentity ==
    /\ \A x \in RunMappings :
          /\ merge(EmptyMap, x.m) = x.m
          /\ merge(x.m, EmptyMap) = x.m
    /\ \A i \in 1..Len(parts) : parts[i].m = parts[i].plain
    /\ (pc = "done" /\ Len(parts) = 1) => final = parts[1].plain

C17_Witness ==
    /\ pc = "done"
    /\ leaf_count = 3
    /\ Len(slices) = 3
    /\ Cardinality(DOMAIN final) = 2
    /\ \E k \in DOMAIN final : final[k].n = 2 /\ final[k].min_temp > 0

\* ------------------------------------------------- runs on well-formed files
\* The runs of main on the files of well-formed records, in which the main
\* thread and the workers of the pool keep taking steps while one is
\* enabled.
InitFair == Init /\ WellFormed(data)

SpecFair == InitFair /\ [][Next]_vars /\ WF_vars(Next)

\* C15: on a well-formed file every iteration of the loop of slice
\* strictly increases slice_start, and every fair run reaches the state in
\* which reduce has returned: all partial mappings are merged into the one
\* final mapping.  (A chunk scan is one step: its loop ends because i
\* grows by one up to len.)
C15_RunCompletes ==
    /\ [][SliceStep => slice_start' > slice_start]_vars
    /\ WellFormed(data) ~>
           (pc = "done" /\ Len(parts) = 1 /\ ~parts[1].chunk
                /\ final = parts[1].m)

C15_Witness ==
    /\ pc = "done"
    /\ WellFormed(data)
    /\ slice_start > Len(data)
    /\ Len(slices) = 3
    /\ Len(parts) = 1
    /\ leaf_count = 1
    /\ Cardinality(DOMAIN final) = 2

\* ------------------------------------------------------- the worker pool
\* The reduction of lines 75-91 told apart by worker.  A worker takes an
\* item of the iterator into its hands when it calls the map closure on it
\* (line 77: the chunk is handed to one call), keeps its accumulator while
\* it folds the items of its sub-range, and takes two results into its
\* hands when it calls the reduce closure |mut m1, m2| on them (line 79:
\* both mappings are moved into the call).  What is in the hands of a
\* worker is in the hands of no other.
Holds(w) == {running[w].acc, running[w].item} \ {NoRange}

\* A call that is handed an item although another worker has it.
Held_Never(range) == FALSE

Held(range) == \E w \in Workers : range \in Holds(w)

\* The position in parts of the item with this range.
ItemAt(range) == CHOOSE i \in 1..Len(parts) : parts[i].range = range

ScanId(range) == <<"scan", range>>
AccId(range) == <<"acc", range>>

\* An idle worker is handed the first chunk of a sub-range and calls the
\* map closure on it.
BeginScan(w, i) ==
    /\ pc = "reduce"
    /\ running[w].kind = "idle"
    /\ i \in 1..Len(parts)
    /\ parts[i].chunk
    /\ ~Held(parts[i].range)
    /\ running' = [running EXCEPT ![w] =
                       [kind |-> "scan", acc |-> NoRange, item |-> parts[i].range]]
    /\ UNCHANGED <<data, slice_size, pc, linear, slice_start, slices, parts,
                   leaf_count, leaves, failure, final, scans, made, used>>

\* A worker that keeps an accumulator is handed the next chunk of its
\* sub-range.
BeginScanNext(w) ==
    /\ pc = "reduce"
    /\ running[w].kind = "hold"
    /\ LET i == ItemAt(running[w].acc)
       IN  /\ i < Len(parts)
           /\ parts[i + 1].chunk
           /\ ~Held(parts[i + 1].range)
           /\ running' = [running EXCEPT ![w] =
                              [kind |-> "scan", acc |-> running[w].acc,
                               item |-> parts[i + 1].range]]
    /\ UNCHANGED <<data, slice_size, pc, linear, slice_start, slices, parts,
                   leaf_count, leaves, failure, final, scans, made, used>>

\* The scan of the chunk returns and the worker merges its mapping into
\* its accumulator: the identity at the first chunk of the sub-range.
EndScan(w) ==
    /\ running[w].kind = "scan"
    /\ LET t == running[w]
           acc == IF t.acc = NoRange THEN t.item ELSE <<t.acc[1], t.item[2]>>
       IN  /\ IF t.acc = NoRange THEN StartLeafStep(ItemAt(t.item))
              ELSE FoldNextStep(ItemAt(t.acc))
           /\ running' = [running EXCEPT ![w] =
                              [kind |-> "hold", acc |-> acc, item |-> NoRange]]
           /\ scans' = scans (+) SetToBag({t.item})
           /\ made' = made \cup {ScanId(t.item), AccId(acc)}
           /\ used' = used (+) SetToBag({ScanId(t.item)} \cup
                                        (IF t.acc = NoRange THEN {}
                                         ELSE {AccId(t.acc)}))

\* The sub-range of the worker ends: its accumulator is the result of the
\* sub-range, to be joined with the result of a neighbour.
Release(w) ==
    /\ pc = "reduce"
    /\ running[w].kind = "hold"
    /\ running' = [running EXCEPT ![w] = Idle]
    /\ UNCHANGED <<data, slice_size, pc, linear, slice_start, slices, parts,
                   leaf_count, leaves, failure, final, scans, made, used>>

\* An idle worker calls the reduce closure on the results of two
\* neighbouring sub-ranges.
BeginJoin(w, i) ==
    /\ pc = "reduce"
    /\ running[w].kind = "idle"
    /\ i \in 1..(Len(parts) - 1)
    /\ ~parts[i].chunk
    /\ ~parts[i + 1].chunk
    /\ ~Held(parts[i].range)
    /\ ~Held(parts[i + 1].range)
    /\ running' = [running EXCEPT ![w] =
                       [kind |-> "merge", acc |-> parts[i].range,
                        item |-> parts[i + 1].range]]
    /\ UNCHANGED <<data, slice_size, pc, linear, slice_start, slices, parts,
                   leaf_count, leaves, failure, final, scans, made, used>>

\* The reduce closure returns m1.
EndJoin(w) ==
    /\ running[w].kind = "merge"
    /\ LET t == running[w]
       IN  /\ JoinStep(ItemAt(t.acc))
           /\ running' = [running EXCEPT ![w] = Idle]
           /\ made' = made \cup {AccId(<<t.acc[1], t.item[2]>>)}
           /\ used' = used (+) SetToBag({AccId(t.acc), AccId(t.item)})
           /\ UNCHANGED scans

\* reduce returns when every worker is done.
PoolFinish ==
    /\ \A w \in Workers : running[w].kind = "idle"
    /\ FinishStep
    /\ UNCHANGED pool

NextPool ==
    \/ SimpleFileRead
    \/ MapFile
    \/ SliceStep
    \/ SliceReturn
    \/ \E w \in Workers : \E i \in 1..(MaxRecords + 1) : BeginScan(w, i)
    \/ \E w \in Workers : BeginScanNext(w)
    \/ \E w \in Workers : EndScan(w)
    \/ \E w \in Workers : Release(w)
    \/ \E w \in Workers : \E i \in 1..(MaxRecords + 1) : BeginJoin(w, i)
    \/ \E w \in Workers : EndJoin(w)
    \/ PoolFinish

SpecPool == InitFair /\ [][NextPool]_vars

\* No item is in the hands of two workers.
Exclusive ==
    \A w1, w2 \in Workers : w1 # w2 => Holds(w1) \cap Holds(w2) = {}

\* No chunk is scanned twice, and when reduce has returned every chunk has
\* been scanned.
ScannedOnce ==
    /\ \A r \in BagToSet(scans) : CopiesIn(r, scans) = 1
    /\ pc = "done" => BagToSet(scans) = { slices[c] : c \in 1..Len(slices) }

\* No partial mapping is consumed twice, and when reduce has returned every
\* partial mapping but the final one has been consumed.
ConsumedOnce ==
    /\ \A id \in BagToSet(used) : CopiesIn(id, used) = 1 /\ id \in made
    /\ pc = "done" => BagToSet(used) = made \ {AccId(parts[1].range)}

\* An item of parts that a step changes or takes away was in the hands of
\* one worker, the worker that takes the step.
OwnerWrites ==
    \A i \in 1..Len(parts) :
        (\A j \in 1..Len(parts') : parts'[j] # parts[i]) =>
            \E w \in Workers :
                /\ parts[i].range \in Holds(w)
                /\ running'[w] # running[w]
                /\ \A v \in Workers \ {w} : parts[i].range \notin Holds(v)

====
